---- MODULE Spec2Model ----
(***************************************************************************)
(* Model of etc/ci/taskcluster/decision-task.py: the decision task that    *)
(* constructs a DecisionTask context and creates two tasks with the        *)
(* in-tree dockerfile, a dev-mode build and a tidy check.                  *)
(*                                                                         *)
(* Strings that the program only passes along are TLA+ strings.  A path is *)
(* a sequence of tokens in which "/" is the separator token and every      *)
(* other token is a piece of text without a separator, so that dirname and *)
(* join are computed as posixpath computes them.  A command is the         *)
(* sequence of the lines of the triple-quoted literal, each line with its  *)
(* indentation and its words.                                              *)
(***************************************************************************)
EXTENDS Integers, Sequences, FiniteSets, TLC

VARIABLES
    file,                \* __file__ of the entry script, a path
    fs,                  \* names of the files present in the script's directory
    nRuns,               \* how many times the caller invokes main()
    run,                 \* number of the current invocation of main()
    pc,                  \* position of the process
    decision,            \* the local `decision` of main()
    CARGO_CACHE_SCOPES,  \* module-level list object
    CARGO_CACHE,         \* module-level dict object
    BUILD_ENV,           \* module-level dict object
    ctorCalls,           \* DecisionTask(...) calls made, in order
    calls,               \* create_task_with_in_tree_dockerfile calls made, in order
    failed,              \* the step whose exception ended the process
    lastDockerfile,      \* the last direct call of dockerfile(name)
    mutated              \* the collaborator has written to an argument it received

vars == <<file, fs, nRuns, run, pc, decision, CARGO_CACHE_SCOPES, CARGO_CACHE,
          BUILD_ENV, ctorCalls, calls, failed, lastDockerfile, mutated>>

\* Bound: the largest number of invocations of main() explored.
MaxRuns == 2

-----------------------------------------------------------------------------
(* Paths: posixpath.dirname and posixpath.join on token sequences.         *)

Sep == "/"

\* p.rfind('/') + 1: the position just after the last separator, 0 if none.
RFindSep(p) ==
    LET S == {i \in 1..Len(p) : p[i] = Sep}
    IN  IF S = {} THEN 0 ELSE CHOOSE i \in S : \A j \in S : j <= i

AllSep(p) == \A i \in 1..Len(p) : p[i] = Sep

\* head.rstrip('/')
RECURSIVE RStripSep(_)
RStripSep(p) ==
    IF p # <<>> /\ p[Len(p)] = Sep THEN RStripSep(SubSeq(p, 1, Len(p) - 1)) ELSE p

\* os.path.dirname(p)
Dirname(p) ==
    LET head == SubSeq(p, 1, RFindSep(p))
    IN  IF head # <<>> /\ ~AllSep(head) THEN RStripSep(head) ELSE head

\* os.path.basename(p)
Basename(p) == SubSeq(p, RFindSep(p) + 1, Len(p))

\* os.path.join(a, b)
Join(a, b) ==
    IF b # <<>> /\ b[1] = Sep THEN b
    ELSE IF a = <<>> \/ a[Len(a)] = Sep THEN a \o b
    ELSE a \o <<Sep>> \o b

DockerfileSuffix == <<".dockerfile">>

\* A mutant of dockerfile(name): the directory of the script is not taken.
dockerfileNoDirname(name) == Join(file, name \o DockerfileSuffix)

\* A mutant of dockerfile(name): the ".dockerfile" suffix is not appended.
dockerfileNoSuffix(name) == Join(Dirname(file), name)

\* def dockerfile(name)
dockerfile(name) == Join(Dirname(file), name \o DockerfileSuffix)

\* The name main() passes to dockerfile().
BuildImageName == <<"build-x86_64-linux">>

\* A path names an existing file: the filesystem the collaborator reads.
Exists(p) == Dirname(p) = Dirname(file) /\ Basename(p) \in fs

-----------------------------------------------------------------------------
(* Module-level configuration: the literals the three globals are bound to. *)

\* CARGO_CACHE_SCOPES = [...]
CargoCacheScopesLiteral ==
    <<"docker-worker:cache:cargo-registry-cache",
      "docker-worker:cache:cargo-git-cache">>

\* CARGO_CACHE = {...}
CargoCacheLiteral ==
    ("cargo-registry-cache" :> "/root/.cargo/registry")
        @@ ("cargo-git-cache" :> "/root/.cargo/git")

\* BUILD_ENV = {...}
BuildEnvLiteral ==
    ("RUST_BACKTRACE" :> "1") @@ ("RUSTFLAGS" :> "-Dwarnings")
        @@ ("CARGO_INCREMENTAL" :> "0") @@ ("SCCACHE_IDLE_TIMEOUT" :> "1200")

-----------------------------------------------------------------------------
(* The arguments main() builds.                                            *)

Line(indent, words) == [indent |-> indent, words |-> words]

\* The keyword arguments of DecisionTask(...).
DecisionArgs ==
    [project_name |-> "Servo",
     route_prefix |-> "project.servo.servo",
     docker_image_cache_expiry |-> "1 week",
     worker_type |-> "servo-docker-worker"]

\* command of the first call: the lines of the triple-quoted literal.
BuildCommand ==
    <<Line(0, <<>>),
      Line(12, <<"./mach", "build", "--dev">>),
      Line(8, <<>>)>>

\* A mutant of TidyCommand: the two test-tidy lines in the other order.
TidyCommandSwapped ==
    <<Line(0, <<>>),
      Line(12, <<"./mach", "test-tidy", "--no-progress", "--self-test">>),
      Line(12, <<"./mach", "test-tidy", "--no-progress", "--all">>),
      Line(8, <<>>)>>

\* command of the second call.
TidyCommand ==
    <<Line(0, <<>>),
      Line(12, <<"./mach", "test-tidy", "--no-progress", "--all">>),
      Line(12, <<"./mach", "test-tidy", "--no-progress", "--self-test">>),
      Line(8, <<>>)>>

\* A mutant of BuildKwargs: the time limit grows with each invocation of main().
BuildKwargsCounted ==
    [task_name |-> "building for Linux x86_64 in dev mode",
     command |-> BuildCommand,
     env |-> BUILD_ENV,
     dockerfile |-> dockerfile(BuildImageName),
     max_run_time_minutes |-> 3 * 60 * run,
     scopes |-> CARGO_CACHE_SCOPES,
     cache |-> CARGO_CACHE]

\* The keyword arguments of the first call, evaluated when the call is made.
BuildKwargs ==
    [task_name |-> "building for Linux x86_64 in dev mode",
     command |-> BuildCommand,
     env |-> BUILD_ENV,
     dockerfile |-> dockerfile(BuildImageName),
     max_run_time_minutes |-> 3 * 60,
     scopes |-> CARGO_CACHE_SCOPES,
     cache |-> CARGO_CACHE]

\* The objects the first call passes by reference: the module globals.
BuildRefs ==
    [env |-> "BUILD_ENV", scopes |-> "CARGO_CACHE_SCOPES", cache |-> "CARGO_CACHE"]

\* A mutant of TidyKwargs: only the registry cache scope is requested.
TidyKwargsOneScope ==
    [task_name |-> "tidy",
     command |-> TidyCommand,
     dockerfile |-> dockerfile(BuildImageName),
     max_run_time_minutes |-> 3 * 60,
     scopes |-> SubSeq(CARGO_CACHE_SCOPES, 1, 1),
     cache |-> CARGO_CACHE]

\* A mutant of TidyKwargs: the build environment is passed to the tidy task too.
TidyKwargsWithEnv ==
    [task_name |-> "tidy",
     command |-> TidyCommand,
     env |-> BUILD_ENV,
     dockerfile |-> dockerfile(BuildImageName),
     max_run_time_minutes |-> 3 * 60,
     scopes |-> CARGO_CACHE_SCOPES,
     cache |-> CARGO_CACHE]

\* The keyword arguments of the second call: no env keyword.
TidyKwargs ==
    [task_name |-> "tidy",
     command |-> TidyCommand,
     dockerfile |-> dockerfile(BuildImageName),
     max_run_time_minutes |-> 3 * 60,
     scopes |-> CARGO_CACHE_SCOPES,
     cache |-> CARGO_CACHE]

\* A mutant of TidyRefs: copies, list(CARGO_CACHE_SCOPES) and dict(CARGO_CACHE), are passed.
TidyRefsCopied ==
    [scopes |-> "copy", cache |-> "copy"]

\* The objects the second call passes by reference.
TidyRefs ==
    [scopes |-> "CARGO_CACHE_SCOPES", cache |-> "CARGO_CACHE"]

-----------------------------------------------------------------------------
(* The collaborator (decisionlib.DecisionTask), as the program sees it: a  *)
(* call either returns, having registered the task, or raises.  It raises  *)
(* when the dockerfile it is given does not exist.  A collaborator that    *)
(* writes to an object it received writes to the caller's object.          *)

NoWrite == "none"

WriteList(l) == Append(l, "written")
WriteDict(d) == d @@ ("written" :> "written")

\* create_task_with_in_tree_dockerfile(**kwargs): outcome ok, write w.
Submit(kwargs, refs, ok, w) ==
    /\ ok => Exists(kwargs.dockerfile)
    /\ w \in {NoWrite} \cup DOMAIN refs
    /\ calls' = Append(calls, [run |-> run, kwargs |-> kwargs, refs |-> refs, ok |-> ok])
    /\ BUILD_ENV' =
          IF w # NoWrite /\ refs[w] = "BUILD_ENV"
          THEN WriteDict(BUILD_ENV) ELSE BUILD_ENV
    /\ CARGO_CACHE' =
          IF w # NoWrite /\ refs[w] = "CARGO_CACHE"
          THEN WriteDict(CARGO_CACHE) ELSE CARGO_CACHE
    /\ CARGO_CACHE_SCOPES' =
          IF w # NoWrite /\ refs[w] = "CARGO_CACHE_SCOPES"
          THEN WriteList(CARGO_CACHE_SCOPES) ELSE CARGO_CACHE_SCOPES
    /\ mutated' = (mutated \/ w # NoWrite)

NoDecision == [constructed |-> FALSE]

-----------------------------------------------------------------------------
(* The process.                                                            *)

ScriptFiles ==
    { <<"decision-task.py">>,
      <<".", "/", "decision-task.py">>,
      <<"/", "decision-task.py">>,
      <<"/", "/", "decision-task.py">>,
      <<"etc", "/", "ci", "/", "taskcluster", "/", "decision-task.py">>,
      <<"/", "repo", "/", "etc", "/", "/", "decision-task.py">> }

ImageNames ==
    { BuildImageName, <<"run">>, <<>>, <<"sub", "/", "image">>, <<"/", "abs">> }

DirectoryFiles == { BuildImageName \o DockerfileSuffix, <<"run">> \o DockerfileSuffix }

NoCall == [called |-> FALSE, name |-> <<>>, result |-> <<>>]

Init ==
    /\ file \in ScriptFiles
    /\ fs \in SUBSET DirectoryFiles
    /\ nRuns \in 1..MaxRuns
    /\ run = 0
    /\ pc = "caller"
    /\ decision = NoDecision
    /\ CARGO_CACHE_SCOPES = CargoCacheScopesLiteral
    /\ CARGO_CACHE = CargoCacheLiteral
    /\ BUILD_ENV = BuildEnvLiteral
    /\ ctorCalls = <<>>
    /\ calls = <<>>
    /\ failed = "none"
    /\ lastDockerfile = NoCall
    /\ mutated = FALSE

\* if __name__ == "__main__": main()   (and a caller that invokes main() again)
CallMain ==
    /\ pc = "caller"
    /\ run < nRuns
    /\ run' = run + 1
    /\ pc' = "main"
    /\ UNCHANGED <<file, fs, nRuns, decision, CARGO_CACHE_SCOPES, CARGO_CACHE,
                   BUILD_ENV, ctorCalls, calls, failed, lastDockerfile, mutated>>

\* decision = DecisionTask(...)
Construct(ok) ==
    /\ pc = "main"
    /\ ctorCalls' = Append(ctorCalls, [run |-> run, args |-> DecisionArgs, ok |-> ok])
    /\ decision' = IF ok THEN [constructed |-> TRUE, args |-> DecisionArgs] ELSE decision
    /\ pc' = IF ok THEN "ctx" ELSE "exit1"
    /\ failed' = IF ok THEN failed ELSE "DecisionTask"
    /\ UNCHANGED <<file, fs, nRuns, run, CARGO_CACHE_SCOPES, CARGO_CACHE,
                   BUILD_ENV, calls, lastDockerfile, mutated>>

\* A mutant of CreateBuildTask: the exception of the call is caught and main() goes on.
CreateBuildTaskCaught(ok, w) ==
    /\ pc = "ctx"
    /\ Submit(BuildKwargs, BuildRefs, ok, w)
    /\ pc' = "built"
    /\ failed' = failed
    /\ UNCHANGED <<file, fs, nRuns, run, decision, ctorCalls, lastDockerfile>>

\* decision.create_task_with_in_tree_dockerfile(task_name="building ...", ...)
CreateBuildTask(ok, w) ==
    /\ pc = "ctx"
    /\ Submit(BuildKwargs, BuildRefs, ok, w)
    /\ pc' = IF ok THEN "built" ELSE "exit1"
    /\ failed' = IF ok THEN failed ELSE "build"
    /\ UNCHANGED <<file, fs, nRuns, run, decision, ctorCalls, lastDockerfile>>

\* A mutant of CreateTidyTask: the second call submits the build descriptor again.
CreateTidyTaskRepeatsBuild(ok, w) ==
    /\ pc = "built"
    /\ Submit(BuildKwargs, BuildRefs, ok, w)
    /\ pc' = IF ok THEN "caller" ELSE "exit1"
    /\ failed' = IF ok THEN failed ELSE "tidy"
    /\ decision' = IF ok THEN NoDecision ELSE decision
    /\ UNCHANGED <<file, fs, nRuns, run, ctorCalls, lastDockerfile>>

\* A mutant of CreateTidyTask: the exception of the call is caught and main() returns.
CreateTidyTaskCaught(ok, w) ==
    /\ pc = "built"
    /\ Submit(TidyKwargs, TidyRefs, ok, w)
    /\ pc' = "caller"
    /\ failed' = failed
    /\ decision' = NoDecision
    /\ UNCHANGED <<file, fs, nRuns, run, ctorCalls, lastDockerfile>>

\* decision.create_task_with_in_tree_dockerfile(task_name="tidy", ...); return
CreateTidyTask(ok, w) ==
    /\ pc = "built"
    /\ Submit(TidyKwargs, TidyRefs, ok, w)
    /\ pc' = IF ok THEN "caller" ELSE "exit1"
    /\ failed' = IF ok THEN failed ELSE "tidy"
    /\ decision' = IF ok THEN NoDecision ELSE decision
    /\ UNCHANGED <<file, fs, nRuns, run, ctorCalls, lastDockerfile>>

\* The interpreter ends normally once the last main() has returned.
Exit ==
    /\ pc = "caller"
    /\ run = nRuns
    /\ pc' = "exit0"
    /\ UNCHANGED <<file, fs, nRuns, run, decision, CARGO_CACHE_SCOPES, CARGO_CACHE,
                   BUILD_ENV, ctorCalls, calls, failed, lastDockerfile, mutated>>

\* A direct call dockerfile(name) from the importing caller.
CallDockerfile(name) ==
    /\ pc = "caller"
    /\ lastDockerfile' = [called |-> TRUE, name |-> name, result |-> dockerfile(name)]
    /\ UNCHANGED <<file, fs, nRuns, run, pc, decision, CARGO_CACHE_SCOPES, CARGO_CACHE,
                   BUILD_ENV, ctorCalls, calls, failed, mutated>>

\* The steps of the process itself.
ProcStep ==
    \/ CallMain
    \/ \E ok \in BOOLEAN : Construct(ok)
    \/ \E ok \in BOOLEAN : CreateBuildTask(ok, NoWrite)
    \/ \E ok \in BOOLEAN : CreateTidyTask(ok, NoWrite)
    \/ Exit

Next ==
    \/ ProcStep
    \/ \E name \in ImageNames : CallDockerfile(name)

\* The process with a collaborator that only registers tasks or raises.
Spec == Init /\ [][Next]_vars

\* The process keeps running: it is one sequential thread and every call returns or raises.
FairSpec == Spec /\ WF_vars(ProcStep)

NextWrite ==
    \/ CallMain
    \/ \E ok \in BOOLEAN : Construct(ok)
    \/ \E ok \in BOOLEAN, w \in {NoWrite, "env", "scopes", "cache"} : CreateBuildTask(ok, w)
    \/ \E ok \in BOOLEAN, w \in {NoWrite, "scopes", "cache"} : CreateTidyTask(ok, w)
    \/ Exit
    \/ \E name \in ImageNames : CallDockerfile(name)

\* The process with a collaborator that may also write to the objects it is handed.
SpecWrite == Init /\ [][NextWrite]_vars

-----------------------------------------------------------------------------
(* Properties.                                                             *)

BuildTaskName == "building for Linux x86_64 in dev mode"
TidyTaskName == "tidy"

\* The calls made during invocation r of main(), in order.
RunCalls(r) == SelectSeq(calls, LAMBDA c : c.run = r)

TaskNames(s) == [i \in 1..Len(s) |-> s[i].kwargs.task_name]

IsPrefix(s, t) == Len(s) <= Len(t) /\ \A i \in 1..Len(s) : s[i] = t[i]

\* Invocation r of main() has returned normally.
RunComplete(r) == r < run \/ (r = run /\ pc \in {"caller", "exit0"})

HasLine(command, words) == \E i \in 1..Len(command) : command[i].words = words

HasWord(command, word) ==
    \E i \in 1..Len(command) : \E j \in 1..Len(command[i].words) :
        command[i].words[j] = word

\* C1: in every invocation of main() the calls made so far are a prefix of
\* [build, tidy], so there is never a third call nor a repeated one, and an
\* invocation that returned has had exactly the two calls accepted, build first.
C1_TwoSubmissionsInOrder ==
    \A r \in 1..run :
        /\ IsPrefix(TaskNames(RunCalls(r)), <<BuildTaskName, TidyTaskName>>)
        /\ RunComplete(r) =>
              /\ TaskNames(RunCalls(r)) = <<BuildTaskName, TidyTaskName>>
              /\ \A i \in 1..Len(RunCalls(r)) : RunCalls(r)[i].ok

C1_Witness == nRuns = MaxRuns /\ pc = "exit0" /\ Len(calls) = 2 * nRuns

\* C2: once the build call of an invocation has raised, no tidy call is ever
\* attempted in that invocation; the failed call is the last call made and the
\* process has ended.
C2_FailFast ==
    \A i \in 1..Len(calls) :
        (calls[i].kwargs.task_name = BuildTaskName /\ ~calls[i].ok) =>
            /\ \A j \in 1..Len(calls) :
                  calls[j].run = calls[i].run => calls[j].kwargs.task_name # TidyTaskName
            /\ i = Len(calls)
            /\ pc = "exit1"

C2_Witness ==
    /\ failed = "build"
    /\ BuildImageName \o DockerfileSuffix \in fs
    /\ run = MaxRuns

\* C3: every call carries the cache mapping of the two cargo caches and the list
\* of the two cache scopes, so the build call's and the tidy call's are equal.
C3_SharedCacheAndScopes ==
    \A i \in 1..Len(calls) :
        /\ DOMAIN calls[i].kwargs.cache = {"cargo-registry-cache", "cargo-git-cache"}
        /\ calls[i].kwargs.cache["cargo-registry-cache"] = "/root/.cargo/registry"
        /\ calls[i].kwargs.cache["cargo-git-cache"] = "/root/.cargo/git"
        /\ calls[i].kwargs.scopes =
              <<"docker-worker:cache:cargo-registry-cache",
                "docker-worker:cache:cargo-git-cache">>
        /\ \A j \in 1..Len(calls) :
              /\ calls[j].kwargs.cache = calls[i].kwargs.cache
              /\ calls[j].kwargs.scopes = calls[i].kwargs.scopes

C3_Witness ==
    /\ Len(calls) = 2
    /\ calls[1].kwargs.task_name = BuildTaskName
    /\ calls[2].kwargs.task_name = TidyTaskName

\* C4: the build call has env equal to the four build variables and the tidy
\* call has no env keyword.
C4_EnvOnlyOnBuild ==
    \A i \in 1..Len(calls) :
        /\ calls[i].kwargs.task_name = BuildTaskName =>
              /\ "env" \in DOMAIN calls[i].kwargs
              /\ DOMAIN calls[i].kwargs.env =
                    {"RUST_BACKTRACE", "RUSTFLAGS", "CARGO_INCREMENTAL",
                     "SCCACHE_IDLE_TIMEOUT"}
              /\ calls[i].kwargs.env["RUST_BACKTRACE"] = "1"
              /\ calls[i].kwargs.env["RUSTFLAGS"] = "-Dwarnings"
              /\ calls[i].kwargs.env["CARGO_INCREMENTAL"] = "0"
              /\ calls[i].kwargs.env["SCCACHE_IDLE_TIMEOUT"] = "1200"
        /\ calls[i].kwargs.task_name = TidyTaskName =>
              "env" \notin DOMAIN calls[i].kwargs

C4_Witness ==
    /\ Len(calls) >= 2
    /\ "env" \in DOMAIN calls[1].kwargs
    /\ "env" \notin DOMAIN calls[2].kwargs

\* C5: any two invocations of main() that returned submitted the same
\* descriptors, field by field.
C5_RunsIdentical ==
    \A r1, r2 \in 1..run :
        (RunComplete(r1) /\ RunComplete(r2)) =>
            /\ Len(RunCalls(r1)) = Len(RunCalls(r2))
            /\ \A i \in 1..Len(RunCalls(r1)) :
                  RunCalls(r1)[i].kwargs = RunCalls(r2)[i].kwargs

C5_Witness == run >= 2 /\ RunComplete(1) /\ RunComplete(2)

Terminal == pc \in {"exit0", "exit1"}

AttemptsOf(log, r) == Cardinality({i \in 1..Len(log) : log[i].run = r})

CallsNamed(r, n) ==
    Cardinality({i \in 1..Len(calls) :
                    calls[i].run = r /\ calls[i].kwargs.task_name = n})

EveryStepSucceeded ==
    /\ Len(ctorCalls) = nRuns
    /\ \A i \in 1..Len(ctorCalls) : ctorCalls[i].ok
    /\ Len(calls) = 2 * nRuns
    /\ \A i \in 1..Len(calls) : calls[i].ok

SomeStepFailed ==
    \/ \E i \in 1..Len(ctorCalls) : ~ctorCalls[i].ok
    \/ \E i \in 1..Len(calls) : ~calls[i].ok

C6_Outcome ==
    /\ pc = "exit0" <=> (Terminal /\ EveryStepSucceeded)
    /\ SomeStepFailed => pc = "exit1"
    /\ pc = "exit1" => SomeStepFailed
    /\ \A r \in 1..nRuns :
          /\ AttemptsOf(ctorCalls, r) <= 1
          /\ CallsNamed(r, BuildTaskName) <= 1
          /\ CallsNamed(r, TidyTaskName) <= 1

\* C6: the process reaches a terminal outcome; the outcome is exit 0 exactly
\* when the construction and both calls of every invocation succeeded; a failed
\* step ends the process in the failed outcome at once, and no step is
\* attempted twice in one invocation.
C6_TerminatesWithOutcome == <>Terminal /\ []C6_Outcome

C6_Witness == pc = "exit1" /\ failed = "tidy" /\ run = MaxRuns

\* C7: the build command has the line ./mach build --dev and no test-tidy
\* line; the tidy command has the --all line before the --self-test line and
\* no build line.
C7_Commands ==
    \A i \in 1..Len(calls) :
        LET c == calls[i].kwargs.command IN
        /\ calls[i].kwargs.task_name = BuildTaskName =>
              /\ HasLine(c, <<"./mach", "build", "--dev">>)
              /\ ~HasWord(c, "test-tidy")
        /\ calls[i].kwargs.task_name = TidyTaskName =>
              /\ \E a, b \in 1..Len(c) :
                    /\ a < b
                    /\ c[a].words = <<"./mach", "test-tidy", "--no-progress", "--all">>
                    /\ c[b].words = <<"./mach", "test-tidy", "--no-progress", "--self-test">>
              /\ \A a, b \in 1..Len(c) :
                    (/\ c[a].words = <<"./mach", "test-tidy", "--no-progress", "--all">>
                     /\ c[b].words = <<"./mach", "test-tidy", "--no-progress", "--self-test">>)
                        => a < b
              /\ ~HasWord(c, "build")

C7_Witness ==
    \E i \in 1..Len(calls) : calls[i].kwargs.task_name = TidyTaskName /\ calls[i].ok

EndsWith(p, t) == Len(t) <= Len(p) /\ SubSeq(p, Len(p) - Len(t) + 1, Len(p)) = t

SimpleName(n) == Len(n) = 1 /\ n[1] # Sep

\* C8: dockerfile(name) ends in name.dockerfile and, for a name without a
\* separator, is the file of that name in the directory of the entry script,
\* whether or not such a file exists; every call of main() carries the path of
\* build-x86_64-linux.dockerfile in that directory.
C8_DockerfilePath ==
    /\ lastDockerfile.called =>
          /\ EndsWith(lastDockerfile.result, lastDockerfile.name \o <<".dockerfile">>)
          /\ SimpleName(lastDockerfile.name) =>
                /\ Dirname(lastDockerfile.result) = Dirname(file)
                /\ Basename(lastDockerfile.result) =
                      lastDockerfile.name \o <<".dockerfile">>
    /\ \A i \in 1..Len(calls) :
          /\ Dirname(calls[i].kwargs.dockerfile) = Dirname(file)
          /\ Basename(calls[i].kwargs.dockerfile) = <<"build-x86_64-linux", ".dockerfile">>
          /\ calls[i].kwargs.dockerfile = calls[1].kwargs.dockerfile

C8_Witness ==
    /\ lastDockerfile.called
    /\ lastDockerfile.name = <<"build-x86_64-linux">>
    /\ fs = {}
    /\ calls # <<>>
    /\ calls[1].kwargs.dockerfile = lastDockerfile.result

NonEmptyCommand(command) == \E i \in 1..Len(command) : command[i].words # <<>>

\* C9 as stated: every descriptor passed to the collaborator has a non-empty
\* name, a non-empty command and a dockerfile path that names an existing file,
\* whatever the directory holds.
C9_Original ==
    \A i \in 1..Len(calls) :
        /\ calls[i].kwargs.task_name # ""
        /\ NonEmptyCommand(calls[i].kwargs.command)
        /\ Exists(calls[i].kwargs.dockerfile)

\* C9 amended: every descriptor passed to the collaborator has a non-empty
\* name, a non-empty command and a dockerfile path in the script's directory;
\* the path names an existing file exactly when build-x86_64-linux.dockerfile
\* is present there, and a descriptor is passed also when it is absent.
C9_DescriptorWellFormed ==
    \A i \in 1..Len(calls) :
        /\ calls[i].kwargs.task_name # ""
        /\ NonEmptyCommand(calls[i].kwargs.command)
        /\ Dirname(calls[i].kwargs.dockerfile) = Dirname(file)
        /\ Exists(calls[i].kwargs.dockerfile)
              <=> (<<"build-x86_64-linux", ".dockerfile">> \in fs)

C9_Witness ==
    /\ calls # <<>>
    /\ <<"build-x86_64-linux", ".dockerfile">> \notin fs
    /\ ~Exists(calls[1].kwargs.dockerfile)

\* C10: main() passes the module globals themselves: every call's scopes and
\* cache (and the build call's env) are the global objects, the same for both
\* calls, and while the collaborator has not written to an argument the
\* globals hold their initial contents.
C10_GlobalsUntouched ==
    /\ ~mutated =>
          /\ CARGO_CACHE_SCOPES = CargoCacheScopesLiteral
          /\ CARGO_CACHE = CargoCacheLiteral
          /\ BUILD_ENV = BuildEnvLiteral
    /\ \A i \in 1..Len(calls) :
          /\ calls[i].refs.scopes = "CARGO_CACHE_SCOPES"
          /\ calls[i].refs.cache = "CARGO_CACHE"
          /\ "env" \in DOMAIN calls[i].refs => calls[i].refs.env = "BUILD_ENV"
          /\ \A j \in 1..Len(calls) :
                /\ calls[j].refs.scopes = calls[i].refs.scopes
                /\ calls[j].refs.cache = calls[i].refs.cache

C10_Witness ==
    /\ ~mutated
    /\ pc = "exit0"
    /\ Len(calls) = 2 * MaxRuns

====
